---- MODULE Spec2Model ----
(***************************************************************************)
(* A model of markov_chain_build.py: the MarkovChain class and its helper  *)
(* CoreProbabilityMatrix.                                                   *)
(*                                                                         *)
(* One MarkovChain instance is modelled.  Its fields are the variables     *)
(* gen_alphabet (self._gen_alphabet), core_mat (self._prob_mat._core_mat)  *)
(* and mat_normalizer (self._prob_mat._mat_normalizer).  Every public      *)
(* method, and the helper _generate_prob_vect_from_prob_vect that the      *)
(* tests call directly, is one action; `call` records the call the client   *)
(* has just made, its arguments and its outcome (the returned value or the *)
(* exception raised) until the client takes it and goes on (Return).  The  *)
(* program is single-threaded: calls never overlap.                        *)
(*                                                                         *)
(* Probabilities are the exact rationals the float64 values stand for: a   *)
(* vector is a record [n |-> numerators, d |-> common denominator] kept in *)
(* lowest terms.  float64 rounding is outside the model; for the vectors   *)
(* met here it can only turn a passing `sum(...) == 1` into an             *)
(* AssertionError (python's sum of [1/6] * 6 is 0.9999999999999999), never *)
(* an error into a return.                                                 *)
(***************************************************************************)
EXTENDS Integers, Sequences, FiniteSets, TLC

\* The symbols callers pass; an alphabet is a sequence over them, so every
\* alphabet shorter than the set leaves some symbol unknown to the model.
Symbols == {"a", "b", "c"}

\* Bounds of the model.
MaxN == 2        \* longest alphabet handed to the constructor
MaxList == 2     \* longest edge list handed to one call
MaxEdges == 3    \* successful update_from_edge calls in one behaviour
MaxLen == 2      \* largest seq_length requested

VARIABLES constructed, gen_alphabet, core_mat, mat_normalizer, call, recorded

vars == <<constructed, gen_alphabet, core_mat, mat_normalizer, call, recorded>>

----------------------------------------------------------------------------
\* Arithmetic helpers.

RECURSIVE SumSeq(_)
SumSeq(s) == IF s = <<>> THEN 0 ELSE Head(s) + SumSeq(Tail(s))

RECURSIVE ProdSeq(_)
ProdSeq(s) == IF s = <<>> THEN 1 ELSE Head(s) * ProdSeq(Tail(s))

Min(x, y) == IF x < y THEN x ELSE y

Abs(x) == IF x < 0 THEN 0 - x ELSE x

RECURSIVE Gcd(_, _)
Gcd(x, y) == IF y = 0 THEN x ELSE Gcd(y, x % y)

RECURSIVE GcdSeq(_, _)
GcdSeq(g, s) == IF s = <<>> THEN g ELSE GcdSeq(Gcd(g, Abs(Head(s))), Tail(s))

\* The rational vector n/d in lowest terms (d >= 1).
Reduce(n, d) ==
    LET g == GcdSeq(d, n)
    IN  [n |-> [k \in DOMAIN n |-> n[k] \div g], d |-> d \div g]

SeqsUpTo(S, k) == UNION {[1..j -> S] : j \in 0..k}

NoVec == [n |-> <<>>, d |-> 1]

----------------------------------------------------------------------------
\* numpy on the arrays the class keeps.

\* `x in self._gen_alphabet`: (alphabet == x).any()
In(x, alphabet) == \E k \in DOMAIN alphabet : alphabet[k] = x

\* np.where(i == alphabet)[0]: the positions holding i, ascending (1-based).
RECURSIVE Where(_, _, _)
Where(alphabet, i, k) ==
    IF k > Len(alphabet) THEN <<>>
    ELSE (IF alphabet[k] = i THEN <<k>> ELSE <<>>) \o Where(alphabet, i, k + 1)

\* The cells core_mat[i1, i2] addresses when i1 and i2 are index arrays:
\* paired elementwise, a one-element array broadcast against the other.
Broadcastable(i1, i2) == Len(i1) = Len(i2) \/ Len(i1) = 1 \/ Len(i2) = 1

FancyCells(i1, i2) ==
    IF Len(i1) = Len(i2) THEN {<<i1[k], i2[k]>> : k \in DOMAIN i1}
    ELSE IF Len(i1) = 1 THEN {<<i1[1], i2[k]>> : k \in DOMAIN i2}
    ELSE {<<i1[k], i2[1]>> : k \in DOMAIN i1}

\* core_mat.sum(axis=1)
RowSums(mat) == [r \in DOMAIN mat |-> SumSeq(mat[r])]

\* np.any(core_mat > 0)
AnyPositive(mat) == \E r \in DOMAIN mat : \E c \in DOMAIN mat[r] : mat[r][c] > 0

----------------------------------------------------------------------------
\* class CoreProbabilityMatrix

\* CoreProbabilityMatrix.__init__
CoreProbabilityMatrix(alphabet_size) ==
    [core_mat       |-> [r \in 1..alphabet_size |-> [c \in 1..alphabet_size |-> 0]],
     mat_normalizer |-> [r \in 1..alphabet_size |-> 1]]

\* A variant of Incremented that adds 2 to the addressed cells.
IncrementedTwice(mat, i1, i2) ==
    [r \in DOMAIN mat |-> [c \in DOMAIN mat[r] |->
        IF <<r, c>> \in FancyCells(i1, i2) THEN mat[r][c] + 2 ELSE mat[r][c]]]

\* self._core_mat[i1, i2] += 1
Incremented(mat, i1, i2) ==
    [r \in DOMAIN mat |-> [c \in DOMAIN mat[r] |->
        IF <<r, c>> \in FancyCells(i1, i2) THEN mat[r][c] + 1 ELSE mat[r][c]]]

\* A variant of Normalizer that leaves the zero row sums at 0.
NormalizerUnpinned(mat) == RowSums(mat)

\* The normalizer the last three lines of _increment_prob_mat_cell leave: the
\* row sums, with every 0 replaced by 1.
Normalizer(mat) ==
    LET sums == RowSums(mat)
    IN  [r \in DOMAIN sums |-> IF sums[r] = 0 THEN 1 ELSE sums[r]]

\* CoreProbabilityMatrix._increment_prob_mat_cell
_increment_prob_mat_cell(pm, i1, i2) ==
    IF ~Broadcastable(i1, i2)
    THEN [status |-> "IndexError", core_mat |-> pm.core_mat,
          mat_normalizer |-> pm.mat_normalizer]
    ELSE LET m == Incremented(pm.core_mat, i1, i2)
         IN  [status |-> "ok", core_mat |-> m, mat_normalizer |-> Normalizer(m)]

\* np.dot(prob_vector, self._core_mat / self._mat_normalizer)
DotNormalized(v, mat, norm) ==
    LET L == ProdSeq(norm)
        num(c) == SumSeq([r \in DOMAIN mat |-> v.n[r] * mat[r][c] * (L \div norm[r])])
    IN  Reduce([c \in DOMAIN mat |-> num(c)], v.d * L)

\* The assertions of _generate_prob_vect_from_prob_vect (the argument is always
\* an ndarray here).  The last one, np.all(<generator>), is true of every
\* vector: np.all is handed one generator object, which is truthy, not the
\* comparisons it would yield; so only the size and the sum are checked.
VectAssertions(pm, v) ==
    /\ Len(v.n) = Len(pm.core_mat)
    /\ SumSeq(v.n) = v.d

\* CoreProbabilityMatrix._generate_prob_vect_from_prob_vect
_generate_prob_vect_from_prob_vect(pm, v) ==
    IF ~VectAssertions(pm, v)
    THEN [status |-> "AssertionError", vec |-> NoVec]
    ELSE [status |-> "ok", vec |-> DotNormalized(v, pm.core_mat, pm.mat_normalizer)]

----------------------------------------------------------------------------
\* class MarkovChain

\* The model object as the methods see it.
Model(alphabet, pm) ==
    [gen_alphabet |-> alphabet, core_mat |-> pm.core_mat,
     mat_normalizer |-> pm.mat_normalizer]

\* MarkovChain._get_prob_mat_index_for_ (its assertion is the caller's too)
_get_prob_mat_index_for_(alphabet, i) == Where(alphabet, i, 1)

\* A variant of update_from_edge that asserts e1 only: an unknown e2 has an
\* empty index array, the increment addresses no cell and the call returns.
update_from_edge_e2_unchecked(m, e1, e2) ==
    IF ~In(e1, m.gen_alphabet)
    THEN [status |-> "AssertionError", core_mat |-> m.core_mat,
          mat_normalizer |-> m.mat_normalizer]
    ELSE IF ~In(e2, m.gen_alphabet)
    THEN [status |-> "ok", core_mat |-> m.core_mat,
          mat_normalizer |-> Normalizer(m.core_mat)]
    ELSE _increment_prob_mat_cell(m, _get_prob_mat_index_for_(m.gen_alphabet, e1),
                                  _get_prob_mat_index_for_(m.gen_alphabet, e2))

\* MarkovChain.update_from_edge: [status, core_mat, mat_normalizer]
update_from_edge(m, e1, e2) ==
    IF ~In(e1, m.gen_alphabet) \/ ~In(e2, m.gen_alphabet)
    THEN [status |-> "AssertionError", core_mat |-> m.core_mat,
          mat_normalizer |-> m.mat_normalizer]
    ELSE _increment_prob_mat_cell(m, _get_prob_mat_index_for_(m.gen_alphabet, e1),
                                  _get_prob_mat_index_for_(m.gen_alphabet, e2))

\* The loop of update_from_edge_list: the edges are applied in order and the
\* first exception ends the loop, keeping what the earlier edges did.
\* `applied` is the edges whose update_from_edge call returned.
RECURSIVE EdgeLoop(_, _, _)
EdgeLoop(m, edge_list, applied) ==
    IF edge_list = <<>>
    THEN [status |-> "ok", core_mat |-> m.core_mat,
          mat_normalizer |-> m.mat_normalizer, applied |-> applied]
    ELSE LET e == Head(edge_list)
             r == update_from_edge(m, e[1], e[2])
         IN  IF r.status # "ok"
             THEN [status |-> r.status, core_mat |-> r.core_mat,
                   mat_normalizer |-> r.mat_normalizer, applied |-> applied]
             ELSE EdgeLoop([m EXCEPT !.core_mat = r.core_mat,
                                     !.mat_normalizer = r.mat_normalizer],
                           Tail(edge_list), Append(applied, e))

\* MarkovChain.update_from_edge_list
update_from_edge_list(m, edge_list) ==
    IF \E k \in DOMAIN edge_list : Len(edge_list[k]) # 2
    THEN [status |-> "AssertionError", core_mat |-> m.core_mat,
          mat_normalizer |-> m.mat_normalizer, applied |-> <<>>]
    ELSE EdgeLoop(m, edge_list, <<>>)

\* MarkovChain.__init__: [status, gen_alphabet, core_mat, mat_normalizer,
\* applied].  An exception leaves the caller without an object.
MarkovChain(generator_alphabet, edge_list) ==
    IF ~(Len(generator_alphabet) > 0)
    THEN [status |-> "AssertionError", gen_alphabet |-> <<>>, core_mat |-> <<>>,
          mat_normalizer |-> <<>>, applied |-> <<>>]
    ELSE LET pm == CoreProbabilityMatrix(Len(generator_alphabet))
             m  == Model(generator_alphabet, pm)
             r  == IF edge_list # <<>> THEN update_from_edge_list(m, edge_list)
                   ELSE [status |-> "ok", core_mat |-> pm.core_mat,
                         mat_normalizer |-> pm.mat_normalizer, applied |-> <<>>]
         IN  IF r.status # "ok"
             THEN [status |-> r.status, gen_alphabet |-> <<>>, core_mat |-> <<>>,
                   mat_normalizer |-> <<>>, applied |-> <<>>]
             ELSE [status |-> "ok", gen_alphabet |-> generator_alphabet,
                   core_mat |-> r.core_mat, mat_normalizer |-> r.mat_normalizer,
                   applied |-> r.applied]

\* MarkovChain._get_equally_likely_prob_vect: np.ones(size) / size
_get_equally_likely_prob_vect(alphabet) ==
    Reduce([k \in DOMAIN alphabet |-> 1], Len(alphabet))

\* A variant of _get_single_result_prob_vector with the comparison negated.
single_result_prob_vector_negated(alphabet, v) ==
    [n |-> [k \in DOMAIN alphabet |-> IF alphabet[k] # v THEN 1 ELSE 0], d |-> 1]

\* MarkovChain._get_single_result_prob_vector: (alphabet == v).astype(int)
\* (its assertion, v in alphabet, is the caller's too)
_get_single_result_prob_vector(alphabet, v) ==
    [n |-> [k \in DOMAIN alphabet |-> IF alphabet[k] = v THEN 1 ELSE 0], d |-> 1]

\* np.random.choice(alphabet, 1, p=prob_vector): a ValueError unless p is
\* non-negative and sums to 1; otherwise any symbol of positive probability.
ChoiceValid(v) ==
    /\ \A k \in DOMAIN v.n : v.n[k] >= 0
    /\ SumSeq(v.n) = v.d

ChoicePicks(alphabet, v) == {k \in DOMAIN alphabet : v.n[k] > 0}

\* The loop of _generate_sequence_from_prob_vector with `left` iterations to
\* go: the set of its outcomes [status, value], one per run of the draws.
RECURSIVE GenLoop(_, _, _, _)
GenLoop(m, v, left, acc) ==
    IF left <= 0 THEN {[status |-> "ok", value |-> acc]}
    ELSE IF ~ChoiceValid(v) THEN {[status |-> "ValueError", value |-> <<>>]}
    ELSE LET adv == _generate_prob_vect_from_prob_vect(m, v)
         IN  IF adv.status # "ok"
             THEN {[status |-> adv.status, value |-> <<>>]}
             ELSE UNION {GenLoop(m, adv.vec, left - 1, Append(acc, m.gen_alphabet[k])) :
                            k \in ChoicePicks(m.gen_alphabet, v)}

\* A variant of _generate_sequence_from_prob_vector without its first
\* assertion, np.any(core_mat > 0).
generate_sequence_from_prob_vector_unguarded(m, prob_vector, seq_length) ==
    IF \/ ~(\A k \in DOMAIN prob_vector.n :
                prob_vector.n[k] >= 0 /\ prob_vector.n[k] <= prob_vector.d)
       \/ SumSeq(prob_vector.n) # prob_vector.d
    THEN {[status |-> "AssertionError", value |-> <<>>]}
    ELSE GenLoop(m, prob_vector, seq_length, <<>>)

\* MarkovChain._generate_sequence_from_prob_vector (seq_length is an int here)
_generate_sequence_from_prob_vector(m, prob_vector, seq_length) ==
    IF \/ ~AnyPositive(m.core_mat)
       \/ ~(\A k \in DOMAIN prob_vector.n :
                prob_vector.n[k] >= 0 /\ prob_vector.n[k] <= prob_vector.d)
       \/ SumSeq(prob_vector.n) # prob_vector.d
    THEN {[status |-> "AssertionError", value |-> <<>>]}
    ELSE GenLoop(m, prob_vector, seq_length, <<>>)

\* MarkovChain.generate_sequence
generate_sequence(m, seq_length) ==
    _generate_sequence_from_prob_vector(
        m, _get_equally_likely_prob_vect(m.gen_alphabet), seq_length)

\* MarkovChain.generate_sequence_starting_with_
generate_sequence_starting_with_(m, seq_start, seq_length) ==
    IF ~AnyPositive(m.core_mat) \/ ~In(seq_start, m.gen_alphabet)
    THEN {[status |-> "AssertionError", value |-> <<>>]}
    ELSE _generate_sequence_from_prob_vector(
             m, _get_single_result_prob_vector(m.gen_alphabet, seq_start), seq_length)

----------------------------------------------------------------------------
\* The calls a client makes, and what each leaves behind.

\* What callers pass.
Alphabets == SeqsUpTo(Symbols, MaxN)
Edges == (Symbols \X Symbols) \cup {<<"a">>}
EdgeLists == SeqsUpTo(Edges, MaxList)
Lengths == (0 - 1)..MaxLen
Vectors == {[n |-> n, d |-> 1] : n \in SeqsUpTo((0 - 1)..2, MaxN) \ {<<>>}}

NoCall ==
    [op |-> "none", status |-> "ok", alphabet |-> <<>>, e1 |-> "", e2 |-> "",
     seq_start |-> "", seq_length |-> 0, vec |-> NoVec, value |-> <<>>,
     out |-> NoVec]

\* The object the methods run on.
Self == [gen_alphabet |-> gen_alphabet, core_mat |-> core_mat,
         mat_normalizer |-> mat_normalizer]

\* recorded[e] counts the update_from_edge(e[1], e[2]) calls that returned.
RECURSIVE Log(_, _)
Log(rec, applied) ==
    IF applied = <<>> THEN rec
    ELSE Log([rec EXCEPT ![Head(applied)] = @ + 1], Tail(applied))

RECURSIVE SetToSeq(_)
SetToSeq(S) ==
    IF S = {} THEN <<>>
    ELSE LET x == CHOOSE y \in S : TRUE IN <<x>> \o SetToSeq(S \ {x})

SymbolPairs == SetToSeq(Symbols \X Symbols)

NumRecorded == SumSeq([k \in DOMAIN SymbolPairs |-> recorded[SymbolPairs[k]]])

Init ==
    /\ constructed = FALSE
    /\ gen_alphabet = <<>>
    /\ core_mat = <<>>
    /\ mat_normalizer = <<>>
    /\ call = NoCall
    /\ recorded = [e \in Symbols \X Symbols |-> 0]

\* No call is in progress: the client is free to make the next one.
Idle == call.op = "none"

\* mc = MarkovChain(generator_alphabet, edge_list)
Construct(generator_alphabet, edge_list) ==
    /\ Idle
    /\ ~constructed
    /\ \E r \in {MarkovChain(generator_alphabet, edge_list)} :
           /\ constructed' = (r.status = "ok")
           /\ gen_alphabet' = r.gen_alphabet
           /\ core_mat' = r.core_mat
           /\ mat_normalizer' = r.mat_normalizer
           /\ recorded' = Log(recorded, r.applied)
           /\ call' = [NoCall EXCEPT !.op = "__init__", !.status = r.status,
                                     !.alphabet = generator_alphabet]

\* mc.update_from_edge(e1, e2)
UpdateFromEdge(e1, e2) ==
    /\ Idle
    /\ constructed
    /\ NumRecorded < MaxEdges
    /\ \E r \in {update_from_edge(Self, e1, e2)} :
           /\ core_mat' = r.core_mat
           /\ mat_normalizer' = r.mat_normalizer
           /\ recorded' = IF r.status = "ok" THEN Log(recorded, <<(<<e1, e2>>)>>)
                          ELSE recorded
           /\ call' = [NoCall EXCEPT !.op = "update_from_edge", !.status = r.status,
                                     !.e1 = e1, !.e2 = e2]
    /\ UNCHANGED <<constructed, gen_alphabet>>

\* mc.update_from_edge_list(edge_list)
UpdateFromEdgeList(edge_list) ==
    /\ Idle
    /\ constructed
    /\ NumRecorded + Len(edge_list) <= MaxEdges
    /\ \E r \in {update_from_edge_list(Self, edge_list)} :
           /\ core_mat' = r.core_mat
           /\ mat_normalizer' = r.mat_normalizer
           /\ recorded' = Log(recorded, r.applied)
           /\ call' = [NoCall EXCEPT !.op = "update_from_edge_list",
                                     !.status = r.status]
    /\ UNCHANGED <<constructed, gen_alphabet>>

\* mc.generate_sequence(seq_length), for one run of the random draws
GenerateSequence(seq_length) ==
    /\ Idle
    /\ constructed
    /\ \E r \in generate_sequence(Self, seq_length) :
           call' = [NoCall EXCEPT !.op = "generate_sequence", !.status = r.status,
                                 !.seq_length = seq_length, !.value = r.value]
    /\ UNCHANGED <<constructed, gen_alphabet, core_mat, mat_normalizer, recorded>>

\* mc.generate_sequence_starting_with_(seq_start, seq_length)
GenerateSequenceStartingWith(seq_start, seq_length) ==
    /\ Idle
    /\ constructed
    /\ \E r \in generate_sequence_starting_with_(Self, seq_start, seq_length) :
           call' = [NoCall EXCEPT !.op = "generate_sequence_starting_with_",
                                 !.status = r.status, !.seq_start = seq_start,
                                 !.seq_length = seq_length, !.value = r.value]
    /\ UNCHANGED <<constructed, gen_alphabet, core_mat, mat_normalizer, recorded>>

\* mc._prob_mat._generate_prob_vect_from_prob_vect(prob_vector)
GenerateProbVect(prob_vector) ==
    /\ Idle
    /\ constructed
    /\ \E r \in {_generate_prob_vect_from_prob_vect(Self, prob_vector)} :
           call' = [NoCall EXCEPT !.op = "_generate_prob_vect_from_prob_vect",
                                 !.status = r.status, !.vec = prob_vector,
                                 !.out = r.vec]
    /\ UNCHANGED <<constructed, gen_alphabet, core_mat, mat_normalizer, recorded>>

\* The client has taken the outcome of its last call.
Return ==
    /\ call.op # "none"
    /\ call' = NoCall
    /\ UNCHANGED <<constructed, gen_alphabet, core_mat, mat_normalizer, recorded>>

Next ==
    \/ /\ Idle /\ ~constructed
       /\ \E al \in Alphabets, el \in EdgeLists : Construct(al, el)
    \/ /\ Idle /\ constructed
       /\ \E e1 \in Symbols, e2 \in Symbols : UpdateFromEdge(e1, e2)
    \/ /\ Idle /\ constructed
       /\ \E el \in SeqsUpTo(Edges, Min(MaxList, MaxEdges - NumRecorded)) :
              UpdateFromEdgeList(el)
    \/ /\ Idle /\ constructed
       /\ \E n \in Lengths : GenerateSequence(n)
    \/ /\ Idle /\ constructed
       /\ \E s \in Symbols, n \in Lengths : GenerateSequenceStartingWith(s, n)
    \/ /\ Idle /\ constructed
       /\ \E v \in Vectors : GenerateProbVect(v)
    \/ Return

Spec == Init /\ [][Next]_vars

----------------------------------------------------------------------------
\* Vocabulary of the properties.

\* No symbol occurs twice in the alphabet.
Distinct(alphabet) ==
    \A i, j \in DOMAIN alphabet : alphabet[i] = alphabet[j] => i = j

\* At least one transition has been recorded.
Trained == constructed /\ AnyPositive(core_mat)

GenOps == {"generate_sequence", "generate_sequence_starting_with_"}

\* The row/column of a symbol of a duplicate-free alphabet.
IndexOf(x) == _get_prob_mat_index_for_(gen_alphabet, x)[1]

N == Len(gen_alphabet)

----------------------------------------------------------------------------
\* C1: on a trained model, generate_sequence(n) with n >= 0 returns without
\* error a sequence of exactly n symbols of the alphabet, whatever the draws
\* are and also when some symbol has no recorded successor.  (Stated for
\* duplicate-free alphabets; the code breaks it on a dead-end row.)
C1_GenerateReturnsLength ==
    (/\ call.op = "generate_sequence"
     /\ Trained
     /\ Distinct(gen_alphabet)
     /\ call.seq_length >= 0)
    => (/\ call.status = "ok"
        /\ Len(call.value) = call.seq_length
        /\ \A k \in DOMAIN call.value : In(call.value[k], gen_alphabet))

\* C2: a sequence returned by generate_sequence_starting_with_(s, n), n >= 1,
\* has s as its first element, whatever the draws are.
C2_FirstElementIsStart ==
    (/\ call.op = "generate_sequence_starting_with_"
     /\ call.status = "ok"
     /\ call.seq_length >= 1)
    => (Len(call.value) >= 1 /\ call.value[1] = call.seq_start)

\* A two-symbol sequence was returned for a start symbol that is not the
\* first of the alphabet, and its second element differs from the start.
C2_Witness ==
    /\ call.op = "generate_sequence_starting_with_"
    /\ call.status = "ok"
    /\ call.seq_length = 2
    /\ Len(call.value) = 2
    /\ Distinct(gen_alphabet)
    /\ N = 2
    /\ call.seq_start = gen_alphabet[2]
    /\ call.value[2] # call.seq_start

\* C3: over a duplicate-free alphabet every cell M[i][j] equals the number of
\* update_from_edge calls that succeeded with the i-th symbol as e1 and the
\* j-th as e2 (so a fresh model is all zeros and one call sets one cell to 1),
\* and no step ever decreases a cell.
C3_CellsCountRecordedEdges ==
    /\ [](constructed /\ Distinct(gen_alphabet)
            => \A i, j \in 1..N :
                  core_mat[i][j] = recorded[<<gen_alphabet[i], gen_alphabet[j]>>])
    /\ [][constructed
            => \A i, j \in 1..N : core_mat'[i][j] >= core_mat[i][j]]_vars

\* update_from_edge has just returned, one cell holds 2, another cell of the
\* same two-symbol model holds 1 and a third is still 0.
C3_Witness ==
    /\ constructed
    /\ Distinct(gen_alphabet)
    /\ N = 2
    /\ call.op = "update_from_edge"
    /\ call.status = "ok"
    /\ \E i, j, k, l, p, q \in 1..N :
          core_mat[i][j] = 2 /\ core_mat[k][l] = 1 /\ core_mat[p][q] = 0

C5_UntrainedGenerationFails ==
    [][(constructed /\ ~AnyPositive(core_mat) /\ call'.op \in GenOps)
          => (/\ call'.status # "ok"
              /\ core_mat' = core_mat
              /\ mat_normalizer' = mat_normalizer)]_vars

\* generate_sequence(0) has just failed on an untrained model.
C5_Witness ==
    /\ constructed
    /\ ~AnyPositive(core_mat)
    /\ call.op = "generate_sequence"
    /\ call.seq_length = 0
    /\ call.status = "AssertionError"

\* C6: update_from_edge with e1 or e2 outside the alphabet fails and leaves
\* matrix and normalizer exactly as they were; every update_from_edge call
\* either changes the matrix and leaves the normalizer recomputed from it, or
\* fails and changes neither.
C6_UnknownSymbolLeavesModelUnchanged ==
    [][call'.op = "update_from_edge" =>
          /\ (~In(call'.e1, gen_alphabet) \/ ~In(call'.e2, gen_alphabet))
                => call'.status # "ok"
          /\ call'.status # "ok"
                => core_mat' = core_mat /\ mat_normalizer' = mat_normalizer
          /\ call'.status = "ok"
                => core_mat' # core_mat /\ mat_normalizer' = Normalizer(core_mat')]_vars

\* update_from_edge has just failed on a trained model because e2 alone is
\* unknown.
C6_Witness ==
    /\ Trained
    /\ call.op = "update_from_edge"
    /\ call.status = "AssertionError"
    /\ In(call.e1, gen_alphabet)
    /\ ~In(call.e2, gen_alphabet)

\* C7: on a trained model both generators fail when seq_length is negative.
\* (The code returns the empty sequence instead.)
C7_NegativeLengthFails ==
    (/\ call.op \in GenOps
     /\ Trained
     /\ Distinct(gen_alphabet)
     /\ call.seq_length < 0)
    => call.status # "ok"

\* C8: the constructor fails on an empty alphabet and on one with a duplicate,
\* so in a constructed model every symbol of the alphabet has exactly one
\* index and distinct symbols have distinct indices.  (The code accepts a
\* duplicate.)
C8_AlphabetValidated ==
    /\ (call.op = "__init__" /\ (call.alphabet = <<>> \/ ~Distinct(call.alphabet)))
          => call.status # "ok"
    /\ constructed =>
          /\ \A k \in 1..N :
                Len(_get_prob_mat_index_for_(gen_alphabet, gen_alphabet[k])) = 1
          /\ \A k, l \in 1..N :
                gen_alphabet[k] # gen_alphabet[l] =>
                    _get_prob_mat_index_for_(gen_alphabet, gen_alphabet[k])
                        # _get_prob_mat_index_for_(gen_alphabet, gen_alphabet[l])

\* C9: in a returned sequence every item after the first was recorded at least
\* once as the successor of the item before it.  (The code draws each item from
\* the marginal distribution, whatever the previous draw was.)
C9_SuccessorsWereRecorded ==
    (/\ call.op \in GenOps
     /\ call.status = "ok"
     /\ Distinct(gen_alphabet))
    => \A k \in 1..(Len(call.value) - 1) :
          core_mat[IndexOf(call.value[k])][IndexOf(call.value[k + 1])] > 0

\* C10: _generate_prob_vect_from_prob_vect fails on every vector of the wrong
\* size, with an entry outside [0, 1], or not summing to 1.  (Stated for trained
\* models over duplicate-free alphabets; the code's range assertion checks
\* nothing.)
C10_MalformedVectorRejected ==
    (/\ call.op = "_generate_prob_vect_from_prob_vect"
     /\ Trained
     /\ Distinct(gen_alphabet)
     /\ \/ Len(call.vec.n) # N
        \/ \E k \in DOMAIN call.vec.n :
              call.vec.n[k] < 0 \/ call.vec.n[k] > call.vec.d
        \/ SumSeq(call.vec.n) # call.vec.d)
    => call.status # "ok"

====
